---- MODULE Spec2Model ----
(***************************************************************************)
(* Accounting and pricing core of the Aexon backend.                       *)
(*                                                                         *)
(*   ledger part : backend/utils/ledger.js and its callers in              *)
(*                 backend/controllers/walletController.js                 *)
(*   price part  : backend/jobs/priceUpdater.js,                           *)
(*                 backend/utils/priceRandomizer.js and the admin routes   *)
(*                                                                         *)
(* Every await of the JavaScript code is a point where another request or  *)
(* timer callback may run, so every handler is split into one action per   *)
(* await; the code between two awaits is one atomic step.                  *)
(***************************************************************************)
EXTENDS Integers, Sequences, FiniteSets, TLC

(***************************************************************************)
(* Bounds of the model.                                                    *)
(***************************************************************************)
MaxPosts == 3
MaxClock == 1

\* requests in flight at the same time
Procs == {"r1", "r2"}

(***************************************************************************)
(* JavaScript numbers: a finite number carries its value, NaN does not.    *)
(***************************************************************************)
Num(v) == [finite |-> TRUE, val |-> v]
NaN == [finite |-> FALSE, val |-> 0]

TheUser == "u1"
LedgerCoins == {"USDT", "BTC"}
WalletIds == {"w1"}

\* request bodies the handlers are driven with
AdjustBodies == {[coin |-> "USDT", delta |-> Num(100)],
                 [coin |-> "USDT", delta |-> Num(-30)],
                 [coin |-> "USDT", delta |-> Num(-90)],
                 [coin |-> "USDT", delta |-> Num(0)],
                 [coin |-> "USDT", delta |-> NaN],
                 [coin |-> "BTC", delta |-> Num(100)]}
SetBalances == {Num(70), NaN}
DepositAmounts == {50}

VARIABLES
  ledger,        \* LedgerEntry collection, in insertion order
  clock,         \* Date.now() at the latest LedgerEntry.create, in ms
  pc,            \* pc[p]: the await a request is suspended at
  req,           \* req[p]: the request handled by p
  prevBalance,   \* prevBalance[p]: value returned by getBalance in postLedgerEntry
  outcome,       \* result of the request that returned last
  nPosts,        \* number of requests started
  embedded,      \* user.wallets of TheUser: coin -> balance (-1: no wallet)
  walletReq,     \* Wallet (deposit request) documents
  allBalances,   \* rows returned by the last getAllBalances call made
                 \* since the last ledger write
  allBalancesAt  \* number of ledger rows at that call (-1: no such call)

ledgerVars == <<ledger, clock, pc, req, prevBalance, outcome, nPosts,
                embedded, walletReq, allBalances, allBalancesAt>>

VARIABLES
  coins,          \* Coin collection: symbol -> document
  listed,         \* the symbols that have a document in the collection
  maxChartPoints, \* MAX_CHART_POINTS of this process
  inProgress,     \* priceUpdater.js module flag
  engineRunning,  \* the interval of startPriceEngine is set
  tpc,            \* tpc[s]: the await an updatePricesOnce body is suspended at
  tcoins,         \* tcoins[s]: the documents its Coin.find returned
  tops,           \* tops[s]: its bulkOps / snapshot, symbol -> [previousPrice, price]
  lastInvocation, \* what the latest updatePricesOnce call did: "ran" | "skipped"
  nInvocations,   \* number of updatePricesOnce calls
  published,      \* the coin_prices snapshot broadcast last (<<>>: none yet)
  rpc,            \* the await randomizePricesOnce is suspended at
  rops,           \* its bulk ops
  nRandom         \* number of randomizePricesOnce calls

priceVars == <<coins, listed, maxChartPoints, inProgress, engineRunning, tpc, tcoins,
               tops, lastInvocation, nInvocations, published, rpc, rops,
               nRandom>>

VARIABLES
  cacheMap,      \* WalletSummaryCache.map: userId -> entry
  cacheTtl,      \* WalletSummaryCache.ttl
  cacheNow,      \* Date.now() as the cache sees it
  cacheCall,     \* the latest call of the cache and what it returned
  nCacheOps      \* number of calls of the cache

cacheVars == <<cacheMap, cacheTtl, cacheNow, cacheCall, nCacheOps>>

VARIABLES
  ccoin,         \* the CustomCoin document
  simNow,        \* Date.now() as the simulator sees it
  spc,           \* spc[s]: the await a runCoinSimulator call is suspended at
  sops,          \* sops[s]: the $set of its bulk op
  nSimRuns,      \* number of runCoinSimulator calls
  simFraction    \* the blend fraction of the last run that took the manual
                 \* step, as a ratio n/d (d = 0: no such run yet)

simVars == <<ccoin, simNow, spc, sops, nSimRuns, simFraction>>

VARIABLES
  hostpc,        \* the host process: serving, closing (shutdown has run and
                 \* waits for server.close), exited (process.exit was called)
  dbConnected,   \* global.__DB_CONNECTED__
  randomizerOff, \* process.env.DISABLE_PRICE_RANDOMIZER === 'true'
  handles,       \* dbServiceHandles: per service 0 (null), the id of the
                 \* interval its stop handle clears, or -1 (a handle that
                 \* clears nothing)
  timers,        \* per service the ids of its active interval timers
  lastTimerId    \* the id setInterval returned last (0: none yet)

hostVars == <<hostpc, dbConnected, randomizerOff, handles, timers, lastTimerId>>

VARIABLES
  clients,       \* clients[c]: a native websocket client is open (its send
                 \* works), broken (readyState 1, its send throws) or closed
  ioBroken,      \* global.io.emit throws
  fanout         \* who received the coin_prices snapshot broadcast last

gatewayVars == <<clients, ioBroken, fanout>>

vars == <<ledgerVars, priceVars, cacheVars, simVars, hostVars, gatewayVars>>

\* what the handlers of one part leave alone
nonLedgerVars == <<priceVars, cacheVars, simVars, hostVars, gatewayVars>>
nonEngineVars == <<ledgerVars, cacheVars, simVars, hostVars>>
nonPriceVars == <<nonEngineVars, gatewayVars>>
nonCacheVars == <<ledgerVars, priceVars, simVars, hostVars, gatewayVars>>
nonSimVars == <<ledgerVars, priceVars, cacheVars, hostVars, gatewayVars>>

(***************************************************************************)
(* Reads of the ledger.                                                     *)
(***************************************************************************)
KeyRows(L, user, coin) ==
  {i \in 1 .. Len(L) : L[i].user = user /\ L[i].coin = coin}

\* rows a descending sort on createdAt may put first: the sort has no
\* second key, so any row with the greatest createdAt can come first
SortFirst(L, rows) ==
  {i \in rows : \A j \in rows : L[j].createdAt <= L[i].createdAt}

\* getBalance: the values findOne(...).sort({createdAt: -1}) can return
getBalance(L, user, coin) ==
  IF KeyRows(L, user, coin) = {}
  THEN {0}
  ELSE {L[i].balance : i \in SortFirst(L, KeyRows(L, user, coin))}

\* getAllBalances: the row sets the aggregation can return
getAllBalances(L, user) ==
  LET present == {c \in LedgerCoins : KeyRows(L, user, c) # {}}
      picks == [present -> 1 .. Len(L)]
  IN  {{[coin |-> c, balance |-> L[f[c]].balance] : c \in present} :
         f \in {g \in picks : \A c \in present :
                   g[c] \in SortFirst(L, KeyRows(L, user, c))}}

(***************************************************************************)
(* postLedgerEntry                                                          *)
(***************************************************************************)
\* line 56: typeof delta === 'number' && Number.isFinite(delta)
AmountAccepted(delta) == delta.finite

\* the balance check left out
InsufficientNever(newBalance) == FALSE

\* line 59: newBalance < 0
Insufficient(newBalance) == newBalance < 0

\* LedgerEntry.create: createdAt is the wall clock at creation, which is
\* the millisecond of the previous creation or a later one
CreatedAt(last) == {t \in {last, last + 1} : t <= MaxClock}

\* the delta stored as the balance
NewEntryStoresDelta(user, type, coin, delta, newBalance, ref, now) ==
  [user |-> user, type |-> type, coin |-> coin, amount |-> delta,
   balance |-> delta, ref |-> ref, createdAt |-> now]

NewEntry(user, type, coin, delta, newBalance, ref, now) ==
  [user |-> user, type |-> type, coin |-> coin, amount |-> delta,
   balance |-> newBalance, ref |-> ref, createdAt |-> now]

NoReq == [op |-> "none", coin |-> "USDT", delta |-> Num(0), type |-> "none",
          ref |-> "none", wallet |-> "none"]

InitLedger ==
  /\ ledger = <<>>
  /\ clock = 0
  /\ pc = [p \in Procs |-> "idle"]
  /\ req = [p \in Procs |-> NoReq]
  /\ prevBalance = [p \in Procs |-> 0]
  /\ outcome = "none"
  /\ nPosts = 0
  /\ embedded = [c \in LedgerCoins |-> -1]
  /\ walletReq \in [WalletIds -> [coin : {"USDT"}, amount : DepositAmounts,
                                  status : {"pending"}]]
  /\ allBalances = {}
  /\ allBalancesAt = -1

\* the handler returns: its locals are gone, the response is kept
Finish(p, result) ==
  /\ pc' = [pc EXCEPT ![p] = "idle"]
  /\ outcome' = result
  /\ req' = [req EXCEPT ![p] = NoReq]
  /\ prevBalance' = [prevBalance EXCEPT ![p] = 0]

\* postLedgerEntry up to its first await (lines 55-57)
PostStart(p, r) ==
  IF AmountAccepted(r.delta)
  THEN /\ pc' = [pc EXCEPT ![p] = "post_getBalance"]
       /\ req' = [req EXCEPT ![p] = r]
       /\ UNCHANGED <<prevBalance, outcome>>
  ELSE Finish(p, "Amount required")

\* postLedgerEntry lines 57-59: getBalance returns, the balance check runs
PostRead(p) ==
  /\ pc[p] = "post_getBalance"
  /\ \E b \in getBalance(ledger, TheUser, req[p].coin) :
       IF Insufficient(b + req[p].delta.val)
       THEN Finish(p, "Insufficient balance")
       ELSE /\ pc' = [pc EXCEPT ![p] = "post_create"]
            /\ prevBalance' = [prevBalance EXCEPT ![p] = b]
            /\ UNCHANGED <<outcome, req>>
  /\ UNCHANGED <<ledger, clock, nPosts, embedded, walletReq,
                 allBalances, allBalancesAt>>
  /\ UNCHANGED nonLedgerVars

\* postLedgerEntry lines 60-68: LedgerEntry.create, then back in the caller
PostCreate(p) ==
  /\ pc[p] = "post_create"
  /\ \E now \in CreatedAt(clock) :
       /\ clock' = now
       /\ ledger' = Append(ledger,
                      NewEntry(TheUser, req[p].type, req[p].coin,
                               req[p].delta.val,
                               prevBalance[p] + req[p].delta.val,
                               req[p].ref, now))
  /\ pc' = [pc EXCEPT ![p] = IF req[p].op = "approveWallet"
                              THEN "aw_save" ELSE "sync"]
  /\ allBalances' = {}
  /\ allBalancesAt' = -1
  /\ UNCHANGED <<req, prevBalance, outcome, nPosts, embedded, walletReq>>
  /\ UNCHANGED nonLedgerVars

(***************************************************************************)
(* Callers of postLedgerEntry (walletController.js)                         *)
(***************************************************************************)
\* adjustBalance lines 322-337: validation, then postLedgerEntry is entered
AdjustBalanceStart(p) ==
  /\ pc[p] = "idle"
  /\ nPosts < MaxPosts
  /\ nPosts' = nPosts + 1
  /\ \E b \in AdjustBodies :
       IF ~b.delta.finite
       THEN Finish(p, "Invalid delta")
       ELSE PostStart(p, [op |-> "adjustBalance", coin |-> b.coin,
                          delta |-> b.delta, type |-> "adjustment",
                          ref |-> "admin_adjust_balance", wallet |-> "none"])
  /\ UNCHANGED <<ledger, clock, embedded, walletReq,
                 allBalances, allBalancesAt>>
  /\ UNCHANGED nonLedgerVars

\* adminSetBalance lines 98-111: validation, then its own getBalance
AdminSetBalanceStart(p) ==
  /\ pc[p] = "idle"
  /\ nPosts < MaxPosts
  /\ nPosts' = nPosts + 1
  /\ \E b \in SetBalances :
       req' = [req EXCEPT ![p] = [op |-> "adminSetBalance", coin |-> "USDT",
                                  delta |-> b, type |-> "adjustment",
                                  ref |-> "admin_set_balance",
                                  wallet |-> "none"]]
  /\ pc' = [pc EXCEPT ![p] = "asb_getBalance"]
  /\ UNCHANGED <<ledger, clock, prevBalance, outcome, embedded, walletReq,
                 allBalances, allBalancesAt>>
  /\ UNCHANGED nonLedgerVars

\* adminSetBalance lines 111-134: delta = desired - ledger balance; a zero
\* delta only syncs the embedded wallet, any other delta is posted.
\* req[p].delta holds the desired balance until this step.
AdminSetBalanceRead(p) ==
  /\ pc[p] = "asb_getBalance"
  /\ \E prev \in getBalance(ledger, TheUser, req[p].coin) :
       LET desired == req[p].delta
           delta == IF desired.finite THEN Num(desired.val - prev) ELSE NaN
       IN  IF delta.finite /\ delta.val = 0
           THEN /\ embedded' = [embedded EXCEPT ![req[p].coin] = desired.val]
                /\ Finish(p, "Balance updated")
           ELSE /\ PostStart(p, [req[p] EXCEPT !.delta = delta])
                /\ UNCHANGED embedded
  /\ UNCHANGED <<ledger, clock, nPosts, walletReq,
                 allBalances, allBalancesAt>>
  /\ UNCHANGED nonLedgerVars

\* approveWallet lines 400-402: Wallet.findById is issued
ApproveWalletStart(p) ==
  /\ pc[p] = "idle"
  /\ nPosts < MaxPosts
  /\ nPosts' = nPosts + 1
  /\ \E w \in WalletIds :
       req' = [req EXCEPT ![p] = [op |-> "approveWallet",
                                  coin |-> walletReq[w].coin,
                                  delta |-> Num(0), type |-> "deposit",
                                  ref |-> "wallet", wallet |-> w]]
  /\ pc' = [pc EXCEPT ![p] = "aw_find"]
  /\ UNCHANGED <<ledger, clock, prevBalance, outcome, embedded, walletReq,
                 allBalances, allBalancesAt>>
  /\ UNCHANGED nonLedgerVars

\* approveWallet lines 402-413: the request is read, an approved one is
\* refused, else depositAmount = Number(w.amount || 0) is posted
ApproveWalletFind(p) ==
  /\ pc[p] = "aw_find"
  /\ LET w == walletReq[req[p].wallet]
     IN  IF w.status = "approved"
         THEN Finish(p, "Already approved")
         ELSE PostStart(p, [req[p] EXCEPT !.delta = Num(w.amount)])
  /\ UNCHANGED <<ledger, clock, nPosts, embedded, walletReq,
                 allBalances, allBalancesAt>>
  /\ UNCHANGED nonLedgerVars

\* approveWallet lines 428-431: w.status = "approved"; w.save()
ApproveWalletSave(p) ==
  /\ pc[p] = "aw_save"
  /\ walletReq' = [walletReq EXCEPT ![req[p].wallet].status = "approved"]
  /\ pc' = [pc EXCEPT ![p] = "sync"]
  /\ UNCHANGED <<ledger, clock, req, prevBalance, outcome, nPosts, embedded,
                 allBalances, allBalancesAt>>
  /\ UNCHANGED nonLedgerVars

\* rejectWallet lines 459-461: Wallet.findById is issued
RejectWalletStart(p) ==
  /\ pc[p] = "idle"
  /\ nPosts < MaxPosts
  /\ nPosts' = nPosts + 1
  /\ \E w \in WalletIds :
       req' = [req EXCEPT ![p] = [op |-> "rejectWallet",
                                  coin |-> walletReq[w].coin,
                                  delta |-> Num(0), type |-> "none",
                                  ref |-> "none", wallet |-> w]]
  /\ pc' = [pc EXCEPT ![p] = "rw_find"]
  /\ UNCHANGED <<ledger, clock, prevBalance, outcome, embedded, walletReq,
                 allBalances, allBalancesAt>>
  /\ UNCHANGED nonLedgerVars

\* rejectWallet lines 461-468: the request is read, whatever its status
\* w.status = "rejected" is set and w.save() is issued
RejectWalletFind(p) ==
  /\ pc[p] = "rw_find"
  /\ pc' = [pc EXCEPT ![p] = "rw_save"]
  /\ UNCHANGED <<ledger, clock, req, prevBalance, outcome, nPosts, embedded,
                 walletReq, allBalances, allBalancesAt>>
  /\ UNCHANGED nonLedgerVars

\* rejectWallet lines 468-473: the save is applied, the handler returns
RejectWalletSave(p) ==
  /\ pc[p] = "rw_save"
  /\ walletReq' = [walletReq EXCEPT ![req[p].wallet].status = "rejected"]
  /\ Finish(p, "success")
  /\ UNCHANGED <<ledger, clock, nPosts, embedded, allBalances, allBalancesAt>>
  /\ UNCHANGED nonLedgerVars

\* the embedded wallet is overwritten with ledgerResult.balance and saved
\* (adminSetBalance 149-157, adjustBalance 353-377, approveWallet 434-450)
SyncWallet(p) ==
  /\ pc[p] = "sync"
  /\ embedded' = [embedded EXCEPT ![req[p].coin] =
                    prevBalance[p] + req[p].delta.val]
  /\ Finish(p, "success")
  /\ UNCHANGED <<ledger, clock, nPosts, walletReq,
                 allBalances, allBalancesAt>>
  /\ UNCHANGED nonLedgerVars

\* GET /admin/user/:id/balances -> getAllBalances(userId)
GetUserBalances ==
  /\ \E rows \in getAllBalances(ledger, TheUser) : allBalances' = rows
  /\ allBalancesAt' = Len(ledger)
  /\ UNCHANGED <<ledger, clock, pc, req, prevBalance, outcome, nPosts,
                 embedded, walletReq>>
  /\ UNCHANGED nonLedgerVars

Request(p) ==
  \/ AdjustBalanceStart(p)
  \/ AdminSetBalanceStart(p)
  \/ AdminSetBalanceRead(p)
  \/ ApproveWalletStart(p)
  \/ ApproveWalletFind(p)
  \/ PostRead(p)
  \/ PostCreate(p)
  \/ ApproveWalletSave(p)
  \/ SyncWallet(p)

\* concurrent requests
NextLedger == \E p \in Procs : Request(p)

\* the handlers of the deposit requests, concurrent
NextDeposits ==
  \/ \E p \in Procs : ApproveWalletStart(p)
  \/ \E p \in Procs : ApproveWalletFind(p)
  \/ \E p \in Procs : PostRead(p)
  \/ \E p \in Procs : PostCreate(p)
  \/ \E p \in Procs : ApproveWalletSave(p)
  \/ \E p \in Procs : SyncWallet(p)
  \/ \E p \in Procs : RejectWalletStart(p)
  \/ \E p \in Procs : RejectWalletFind(p)
  \/ \E p \in Procs : RejectWalletSave(p)

\* requests issued one after another: a single request is in flight
NextSequential == Request("r1")

\* concurrent requests and balance queries
NextBalances == NextLedger \/ GetUserBalances

(***************************************************************************)
(* Price part.                                                              *)
(*                                                                          *)
(* Prices are fixed-point integers, 4 units to 1.0 (100.0 is 400).  toFixed *)
(* is a rounding to a multiple of a grid of units, half away from zero; the *)
(* grids stand for the 8 and the 6 decimals of the source, and values off   *)
(* the grid stand for numbers with more decimals than toFixed keeps.       *)
(* driftSpeed and the randomizer's change are hundredths (0.03 is 3).      *)
(* Chart point counts are scaled so that the caps are reached within the   *)
(* bounds: 50 is 2 and 500 is 3; their order is the source's.              *)
(***************************************************************************)
MaxInvocations == 3
MaxRandomRuns == 1

CoinSymbols == {"BTC"}
\* updatePricesOnce bodies that could be between their awaits at once
Slots == {"t1", "t2"}

PRICE_GRID_8 == 2
PRICE_GRID_6 == 4
RANDOMIZER_FLOOR == 1
MIN_CHART_POINTS == 2
DEFAULT_CHART_POINTS == 3
RANDOMIZER_SLICE == 3
DEFAULT_DRIFT_SPEED == 3

\* process.env.MAX_CHART_POINTS
EnvChartPoints == {NaN, Num(2)}
\* binanceMap[SYMBOL + "USDT"]: a finite quote, or none
Quotes == {NaN, Num(440)}
\* (Math.random() - 0.5) * 0.1, in hundredths
Changes == {-4, 4}
\* bodies of POST /coins/:symbol/set-target
SetTargetBodies == {[targetPrice |-> 600, driftSpeed |-> Num(50)],
                    [targetPrice |-> 601, driftSpeed |-> Num(100)],
                    [targetPrice |-> -40, driftSpeed |-> NaN]}

NoTarget == [isNull |-> TRUE, val |-> 0]
Target(v) == [isNull |-> FALSE, val |-> v]

Max(a, b) == IF a >= b THEN a ELSE b

\* n / d rounded to the nearest integer, half away from zero (d > 0)
RoundDiv(n, d) ==
  IF n >= 0 THEN (2 * n + d) \div (2 * d)
  ELSE -((2 * (-n) + d) \div (2 * d))

\* Number((n / d).toFixed(k)) where grid stands for 10^-k
ToFixed(n, d, grid) == grid * RoundDiv(n, d * grid)

\* priceUpdater.js line 19
MaxChartPointsOf(env) ==
  Max(MIN_CHART_POINTS, IF env.finite THEN env.val ELSE DEFAULT_CHART_POINTS)

\* $push: { chartHistory: { $each: [point], $slice: -n } }
PushSlice(h, point, n) ==
  LET all == Append(h, point)
  IN  IF Len(all) <= n THEN all
      ELSE SubSeq(all, Len(all) - n + 1, Len(all))

\* the guard left out
OverlappingIgnored(flag) == FALSE

\* line 42: the in-progress guard
Overlapping(flag) == flag

\* line 67: Math.max(0, Number(c.driftSpeed || 0.03))
DriftSpeedOf(c) ==
  Max(0, IF c.driftSpeed = 0 THEN DEFAULT_DRIFT_SPEED ELSE c.driftSpeed)

\* the step taken from the target instead of toward it
DriftedAwayTimes100(current, target, speed) ==
  current * 100 + (current - target) * speed

\* lines 68-72: current + (target - current) * driftSpeed, in hundredths of
\* a unit
DriftedTimes100(current, target, speed) ==
  current * 100 + (target - current) * speed

\* admin control ignored: the feed price or the current price
TickPriceFeedOnly(c, quote) ==
  [previousPrice |-> IF c.previousPrice # 0 THEN c.previousPrice ELSE c.price,
   price |-> IF quote.finite THEN quote.val ELSE c.price]

\* lines 58-98: previousPrice and price that the tick sets for coin c
TickPrice(c, quote) ==
  LET current == c.price
      prev == IF c.previousPrice # 0 THEN c.previousPrice ELSE current
      computed ==
        IF c.adminControlEnabled /\ ~c.targetPrice.isNull
        THEN ToFixed(DriftedTimes100(current, c.targetPrice.val, DriftSpeedOf(c)),
                     100, PRICE_GRID_8)
        ELSE IF quote.finite THEN quote.val ELSE current
      newPrice == IF computed < 0 THEN Max(0, current) ELSE computed
  IN  [previousPrice |-> prev, price |-> newPrice]

\* priceRandomizer.js lines 14-17
RandomPrice(c, change) ==
  LET current == c.price
  IN  [previousPrice |-> current,
       price |-> Max(RANDOMIZER_FLOOR,
                     ToFixed(current * (100 + change), 100, PRICE_GRID_6))]

NoOps == [sym \in CoinSymbols |-> [previousPrice |-> 0, price |-> 0]]
NoDocs == [sym \in CoinSymbols |->
             [price |-> 0, previousPrice |-> 0, adminControlEnabled |-> FALSE,
              targetPrice |-> NoTarget, driftSpeed |-> 0]]

\* the fields of a document that updatePricesOnce reads
Lean(doc) ==
  [price |-> doc.price, previousPrice |-> doc.previousPrice,
   adminControlEnabled |-> doc.adminControlEnabled,
   targetPrice |-> doc.targetPrice, driftSpeed |-> doc.driftSpeed]

InitPrice ==
  /\ coins = [sym \in CoinSymbols |->
                [price |-> 400, previousPrice |-> 400, chartHistory |-> <<>>,
                 adminControlEnabled |-> FALSE, targetPrice |-> NoTarget,
                 driftSpeed |-> DEFAULT_DRIFT_SPEED]]
  /\ listed \in {CoinSymbols, {}}
  /\ maxChartPoints \in {MaxChartPointsOf(e) : e \in EnvChartPoints}
  /\ inProgress = FALSE
  /\ engineRunning = FALSE
  /\ tpc = [s \in Slots |-> "idle"]
  /\ tcoins = [s \in Slots |-> NoDocs]
  /\ tops = [s \in Slots |-> NoOps]
  /\ lastInvocation = "none"
  /\ nInvocations = 0
  /\ published = <<>>
  /\ rpc = "idle"
  /\ rops = NoOps
  /\ nRandom = 0

\* updatePricesOnce lines 41-50: the guard, the flag, Coin.find is issued
UpdatePricesOnceCall ==
  /\ nInvocations < MaxInvocations
  /\ nInvocations' = nInvocations + 1
  /\ IF Overlapping(inProgress)
     THEN /\ lastInvocation' = "skipped"
          /\ UNCHANGED <<inProgress, tpc>>
     ELSE /\ \E s \in Slots : tpc[s] = "idle"
          /\ LET s == CHOOSE t \in Slots : tpc[t] = "idle"
             IN  tpc' = [tpc EXCEPT ![s] = "find"]
          /\ inProgress' = TRUE
          /\ lastInvocation' = "ran"
  /\ UNCHANGED <<coins, listed, maxChartPoints, tcoins, tops, published, rpc, rops,
                 nRandom>>

\* startPriceEngine lines 147-155, called when no stop handle is held
\* (server.js line 50)
StartPriceEngine ==
  /\ ~engineRunning
  /\ engineRunning' = TRUE
  /\ UpdatePricesOnceCall
  /\ UNCHANGED nonPriceVars

\* the setInterval callback, lines 151-153
IntervalFires ==
  /\ engineRunning
  /\ UNCHANGED engineRunning
  /\ UpdatePricesOnceCall
  /\ UNCHANGED nonPriceVars

\* the stop handle, line 154 (server.js lines 91-93)
StopPriceEngine ==
  /\ engineRunning
  /\ engineRunning' = FALSE
  /\ UNCHANGED <<coins, listed, maxChartPoints, inProgress, tpc, tcoins, tops,
                 lastInvocation, nInvocations, published, rpc, rops, nRandom>>
  /\ UNCHANGED nonPriceVars

\* a failed body that leaves the flag set
TickFailsKeepsFlag(s) ==
  /\ tpc' = [tpc EXCEPT ![s] = "idle"]
  /\ tcoins' = [tcoins EXCEPT ![s] = NoDocs]
  /\ tops' = [tops EXCEPT ![s] = NoOps]
  /\ UNCHANGED inProgress

\* lines 140-144: catch and finally of a body that failed
TickFails(s) ==
  /\ tpc' = [tpc EXCEPT ![s] = "idle"]
  /\ tcoins' = [tcoins EXCEPT ![s] = NoDocs]
  /\ tops' = [tops EXCEPT ![s] = NoOps]
  /\ inProgress' = FALSE

\* lines 50-51: Coin.find returns the documents, returns none (the body
\* returns through finally), or fails
TickFind(s) ==
  /\ tpc[s] = "find"
  /\ \/ /\ listed # {}
        /\ tcoins' = [tcoins EXCEPT ![s] = [sym \in CoinSymbols |-> Lean(coins[sym])]]
        /\ tpc' = [tpc EXCEPT ![s] = "fetch"]
        /\ UNCHANGED <<inProgress, tops>>
     \/ /\ listed = {}
        /\ tpc' = [tpc EXCEPT ![s] = "idle"]
        /\ inProgress' = FALSE
        /\ UNCHANGED <<tcoins, tops>>
     \/ TickFails(s)
  /\ UNCHANGED <<coins, listed, maxChartPoints, engineRunning, lastInvocation,
                 nInvocations, published, rpc, rops, nRandom>>
  /\ UNCHANGED nonPriceVars

\* lines 53-118: fetchBinanceMap returns, the bulk ops are built
TickFetch(s) ==
  /\ tpc[s] = "fetch"
  /\ \E quote \in [CoinSymbols -> Quotes] :
       tops' = [tops EXCEPT ![s] =
                  [sym \in CoinSymbols |-> TickPrice(tcoins[s][sym], quote[sym])]]
  /\ tcoins' = [tcoins EXCEPT ![s] = NoDocs]
  /\ tpc' = [tpc EXCEPT ![s] = "bulkWrite"]
  /\ UNCHANGED <<coins, listed, maxChartPoints, inProgress, engineRunning,
                 lastInvocation, nInvocations, published, rpc, rops, nRandom>>
  /\ UNCHANGED nonPriceVars

\* a bulk write that stores whole documents, the control fields at their
\* defaults
TickBulkWriteWholeDoc(s) ==
  /\ tpc[s] = "bulkWrite"
  /\ \/ /\ coins' = [sym \in CoinSymbols |->
                       IF sym \notin listed THEN coins[sym]
                       ELSE [coins[sym] EXCEPT
                               !.adminControlEnabled = FALSE,
                               !.targetPrice = NoTarget,
                               !.previousPrice = tops[s][sym].previousPrice,
                               !.price = tops[s][sym].price,
                               !.chartHistory = PushSlice(@, tops[s][sym].price,
                                                          maxChartPoints)]]
        /\ tpc' = [tpc EXCEPT ![s] = "broadcast"]
        /\ UNCHANGED <<inProgress, tcoins, tops>>
     \/ /\ TickFails(s)
        /\ UNCHANGED coins
  /\ UNCHANGED <<listed, maxChartPoints, engineRunning, lastInvocation, nInvocations,
                 published, rpc, rops, nRandom>>
  /\ UNCHANGED nonPriceVars

\* lines 120-123: Coin.bulkWrite is applied, or fails
TickBulkWrite(s) ==
  /\ tpc[s] = "bulkWrite"
  /\ \/ /\ coins' = [sym \in CoinSymbols |->
                       IF sym \notin listed THEN coins[sym]
                       ELSE [coins[sym] EXCEPT
                               !.previousPrice = tops[s][sym].previousPrice,
                               !.price = tops[s][sym].price,
                               !.chartHistory = PushSlice(@, tops[s][sym].price,
                                                          maxChartPoints)]]
        /\ tpc' = [tpc EXCEPT ![s] = "broadcast"]
        /\ UNCHANGED <<inProgress, tcoins, tops>>
     \/ /\ TickFails(s)
        /\ UNCHANGED coins
  /\ UNCHANGED <<listed, maxChartPoints, engineRunning, lastInvocation, nInvocations,
                 published, rpc, rops, nRandom>>
  /\ UNCHANGED nonPriceVars

WsClients == {1, 2}
ClientStates == {"open", "broken", "closed"}

\* the forEach ended by the first send that throws
WsReceiversUntilFailure(cl) ==
  {c \in WsClients : /\ cl[c] = "open"
                     /\ \A d \in WsClients : d < c => cl[d] # "broken"}

\* lines 129-137: every client with readyState 1 is sent the snapshot, each
\* send in its own try; the clients are visited in the order they connected
WsReceivers(cl) == {c \in WsClients : cl[c] = "open"}

NoFanout == [io |-> FALSE, ws |-> {}]

\* the subscribers at the start
InitGateway ==
  /\ clients \in [WsClients -> ClientStates]
  /\ ioBroken \in BOOLEAN
  /\ fanout = NoFanout

\* a websocket client connects, closes, or its socket breaks
ClientChanges(c) ==
  /\ \E st \in ClientStates \ {clients[c]} :
       clients' = [clients EXCEPT ![c] = st]
  /\ UNCHANGED <<ioBroken, fanout>>
  /\ UNCHANGED <<ledgerVars, priceVars, cacheVars, simVars, hostVars>>

\* the snapshot built from the prices before the tick
SnapshotOfPrevious(ops) == [sym \in CoinSymbols |-> ops[sym].previousPrice]

\* line 117: the snapshot holds the new price of every coin
Snapshot(ops) == [sym \in CoinSymbols |-> ops[sym].price]

\* lines 125-144: the snapshot is broadcast, the flag is cleared
TickBroadcast(s) ==
  /\ tpc[s] = "broadcast"
  /\ published' = <<Snapshot(tops[s])>>
  /\ tpc' = [tpc EXCEPT ![s] = "idle"]
  /\ tops' = [tops EXCEPT ![s] = NoOps]
  /\ inProgress' = FALSE
  /\ UNCHANGED <<coins, listed, maxChartPoints, engineRunning, tcoins, lastInvocation,
                 nInvocations, rpc, rops, nRandom>>
  /\ fanout' = [io |-> ~ioBroken, ws |-> WsReceivers(clients)]
  /\ UNCHANGED <<clients, ioBroken>>
  /\ UNCHANGED nonEngineVars

\* randomizePricesOnce lines 11-39: Coin.find returns, the ops are built;
\* with no ops the run ends
RandomizerRead ==
  /\ rpc = "idle"
  /\ nRandom < MaxRandomRuns
  /\ nRandom' = nRandom + 1
  /\ IF listed = {}
     THEN UNCHANGED <<rops, rpc>>
     ELSE /\ \E change \in [CoinSymbols -> Changes] :
               rops' = [sym \in CoinSymbols |->
                          RandomPrice(coins[sym], change[sym])]
          /\ rpc' = "bulkWrite"
  /\ UNCHANGED <<coins, listed, maxChartPoints, inProgress, engineRunning, tpc, tcoins,
                 tops, lastInvocation, nInvocations, published>>
  /\ UNCHANGED nonPriceVars

\* randomizePricesOnce lines 39-45: Coin.bulkWrite is applied, or fails
RandomizerWrite ==
  /\ rpc = "bulkWrite"
  /\ \/ coins' = [sym \in CoinSymbols |->
                    IF sym \notin listed THEN coins[sym]
                    ELSE [coins[sym] EXCEPT
                            !.previousPrice = rops[sym].previousPrice,
                            !.price = rops[sym].price,
                            !.chartHistory = PushSlice(@, rops[sym].price,
                                                       RANDOMIZER_SLICE)]]
     \/ UNCHANGED coins
  /\ rpc' = "idle"
  /\ rops' = NoOps
  /\ UNCHANGED <<listed, maxChartPoints, inProgress, engineRunning, tpc, tcoins, tops,
                 lastInvocation, nInvocations, published, nRandom>>
  /\ UNCHANGED nonPriceVars

\* POST /coins/:symbol/set-target, for a coin that exists (else 404).
\* findOne and save are taken as one step: save writes the control fields
\* only, which no price writer touches.
SetTarget(sym) ==
  /\ sym \in listed
  /\ \E body \in SetTargetBodies :
       coins' = [coins EXCEPT ![sym] =
                   [@ EXCEPT !.adminControlEnabled = TRUE,
                             !.targetPrice = Target(body.targetPrice),
                             !.driftSpeed = IF body.driftSpeed.finite
                                            THEN body.driftSpeed.val ELSE @]]
  /\ UNCHANGED <<listed, maxChartPoints, inProgress, engineRunning, tpc, tcoins, tops,
                 lastInvocation, nInvocations, published, rpc, rops, nRandom>>
  /\ UNCHANGED nonPriceVars

\* POST /coins/:symbol/disable-control, for a coin that exists (else 404)
DisableControl(sym) ==
  /\ sym \in listed
  /\ coins' = [coins EXCEPT ![sym] =
                 [@ EXCEPT !.adminControlEnabled = FALSE,
                           !.targetPrice = NoTarget]]
  /\ UNCHANGED <<listed, maxChartPoints, inProgress, engineRunning, tpc, tcoins, tops,
                 lastInvocation, nInvocations, published, rpc, rops, nRandom>>
  /\ UNCHANGED nonPriceVars

\* prices of POST /admin/price_override and of a price_update broadcast
OverridePrices == {-40, 480}

\* the document an upsert inserts for a symbol that has none: the schema
\* defaults (Coin.js lines 17-29)
DefaultCoin ==
  [price |-> 0, previousPrice |-> 0, chartHistory |-> <<>>,
   adminControlEnabled |-> FALSE, targetPrice |-> NoTarget,
   driftSpeed |-> DEFAULT_DRIFT_SPEED]

\* the document of sym, or the defaults if the collection has none
Upserted(sym) == IF sym \in listed THEN coins[sym] ELSE DefaultCoin

\* priceOverride (walletController.js lines 545-554): findOneAndUpdate with
\* upsert sets price and targetPrice to Number(price)
PriceOverride(sym) ==
  /\ \E price \in OverridePrices :
       coins' = [coins EXCEPT ![sym] =
                   [Upserted(sym) EXCEPT !.price = price,
                                         !.targetPrice = Target(price)]]
  /\ listed' = listed \cup {sym}
  /\ UNCHANGED <<maxChartPoints, inProgress, engineRunning, tpc, tcoins, tops,
                 lastInvocation, nInvocations, published, rpc, rops, nRandom>>
  /\ UNCHANGED nonPriceVars

\* broadcast of type price_update (walletController.js lines 528-531):
\* findOneAndUpdate with upsert sets price to Number(price)
BroadcastPriceUpdate(sym) ==
  /\ \E price \in OverridePrices :
       coins' = [coins EXCEPT ![sym] = [Upserted(sym) EXCEPT !.price = price]]
  /\ listed' = listed \cup {sym}
  /\ UNCHANGED <<maxChartPoints, inProgress, engineRunning, tpc, tcoins, tops,
                 lastInvocation, nInvocations, published, rpc, rops, nRandom>>
  /\ UNCHANGED nonPriceVars

\* the price engine
NextEngine ==
  \/ StartPriceEngine
  \/ IntervalFires
  \/ StopPriceEngine
  \/ \E s \in Slots : TickFind(s)
  \/ \E s \in Slots : TickFetch(s)
  \/ \E s \in Slots : TickBulkWrite(s)
  \/ \E s \in Slots : TickBroadcast(s)

\* the price engine and its subscribers
NextBroadcast ==
  \/ NextEngine
  \/ \E c \in WsClients : ClientChanges(c)

\* the price engine and the admin routes
NextPrice ==
  \/ NextEngine
  \/ \E sym \in CoinSymbols : SetTarget(sym)
  \/ \E sym \in CoinSymbols : DisableControl(sym)

\* the price engine, the admin routes and the other price writer
NextWriters ==
  \/ NextPrice
  \/ RandomizerRead
  \/ RandomizerWrite

\* the price engine and the admin price overrides
NextOverrides ==
  \/ NextEngine
  \/ \E sym \in CoinSymbols : PriceOverride(sym)
  \/ \E sym \in CoinSymbols : BroadcastPriceUpdate(sym)

(***************************************************************************)
(* Wallet summary cache (backend/utils/walletSummaryCache.js).              *)
(*                                                                          *)
(* Times are in units of 4000 ms: the default ttl of 8000 ms is 2.          *)
(***************************************************************************)
MaxCacheOps == 4
MaxNow == 2

DEFAULT_TTL_MS == 2

CacheUsers == {"u1", "u2"}
\* data passed to set
Snapshots == {0, 1}
\* arguments of setTTL
TtlArgs == {NaN, Num(0), Num(1), Num(3), Num(-1)}

NoEntry == [present |-> FALSE, ts |-> 0, data |-> 0]
Entry(ts, data) == [present |-> TRUE, ts |-> ts, data |-> data]

\* what a call returned: get returns data (hit) or null; existed tells
\* whether a Map.delete made by the call removed an entry
Returned(op, user, hit, data, existed) ==
  [op |-> op, user |-> user, hit |-> hit, data |-> data, existed |-> existed]

\* every entry counts as fresh
IsFreshAlways(entry, now, ttl) == entry.present

\* _isFresh, lines 20-23
IsFresh(entry, now, ttl) == entry.present /\ (now - entry.ts) < ttl

\* nothing is deleted
DeletedNothing(map, user) == map

\* this.map.delete(String(userId))
Deleted(map, user) == [map EXCEPT ![user] = NoEntry]

InitCache ==
  /\ cacheMap = [u \in CacheUsers |-> NoEntry]
  /\ cacheTtl = DEFAULT_TTL_MS
  /\ cacheNow = 0
  /\ cacheCall = Returned("none", "u1", FALSE, 0, FALSE)
  /\ nCacheOps = 0

\* a call of the cache is counted
CacheCalled ==
  /\ nCacheOps < MaxCacheOps
  /\ nCacheOps' = nCacheOps + 1

\* get(userId), lines 25-31
CacheGet(u) ==
  /\ CacheCalled
  /\ IF IsFresh(cacheMap[u], cacheNow, cacheTtl)
     THEN /\ cacheCall' = Returned("get", u, TRUE, cacheMap[u].data, FALSE)
          /\ UNCHANGED cacheMap
     ELSE /\ cacheCall' = Returned("get", u, FALSE, 0, cacheMap[u].present)
          /\ cacheMap' = Deleted(cacheMap, u)
  /\ UNCHANGED <<cacheTtl, cacheNow>>
  /\ UNCHANGED nonCacheVars

\* set(userId, data), lines 33-35
CacheSet(u, data) ==
  /\ CacheCalled
  /\ cacheMap' = [cacheMap EXCEPT ![u] = Entry(cacheNow, data)]
  /\ cacheCall' = Returned("set", u, FALSE, 0, FALSE)
  /\ UNCHANGED <<cacheTtl, cacheNow>>
  /\ UNCHANGED nonCacheVars

\* invalidate(userId), lines 37-39
CacheInvalidate(u) ==
  /\ CacheCalled
  /\ cacheMap' = Deleted(cacheMap, u)
  /\ cacheCall' = Returned("invalidate", u, FALSE, 0, cacheMap[u].present)
  /\ UNCHANGED <<cacheTtl, cacheNow>>
  /\ UNCHANGED nonCacheVars

\* clearAll(), lines 41-43
CacheClearAll ==
  /\ CacheCalled
  /\ cacheMap' = [u \in CacheUsers |-> NoEntry]
  /\ cacheCall' = Returned("clearAll", "u1", FALSE, 0, FALSE)
  /\ UNCHANGED <<cacheTtl, cacheNow>>
  /\ UNCHANGED nonCacheVars

\* setTTL(ms), lines 45-47: this.ttl = Number(ms) || this.ttl
CacheSetTTL(ms) ==
  /\ CacheCalled
  /\ cacheTtl' = IF ms.finite /\ ms.val # 0 THEN ms.val ELSE cacheTtl
  /\ cacheCall' = Returned("setTTL", "u1", FALSE, 0, FALSE)
  /\ UNCHANGED <<cacheMap, cacheNow>>
  /\ UNCHANGED nonCacheVars

\* time passes between two calls
CacheTimePasses ==
  /\ cacheNow < MaxNow
  /\ cacheNow' = cacheNow + 1
  /\ UNCHANGED <<cacheMap, cacheTtl, cacheCall, nCacheOps>>
  /\ UNCHANGED nonCacheVars

\* any caller of the cache
NextCache ==
  \/ \E u \in CacheUsers : CacheGet(u)
  \/ \E u \in CacheUsers : \E d \in Snapshots : CacheSet(u, d)
  \/ \E u \in CacheUsers : CacheInvalidate(u)
  \/ CacheClearAll
  \/ \E ms \in TtlArgs : CacheSetTTL(ms)
  \/ CacheTimePasses

\* the ledger handlers of walletController.js, one request at a time, next
\* to a caller that stores the summary of the ledger rows it sees and a
\* caller that reads it
NextSummary ==
  \/ Request("r1")
  \/ CacheSet(TheUser, Len(ledger))
  \/ CacheGet(TheUser)

(***************************************************************************)
(* Custom coin simulator (runCoinSimulator, startSimulator).                *)
(*                                                                          *)
(* Prices are the fixed-point integers of the price part; 0.01 is one step  *)
(* of the 6-decimal grid.  Times are in units of the simulator interval.    *)
(***************************************************************************)
MaxSimRuns == 3
MaxSimNow == 2

SIM_FLOOR == 4
SIM_EPSILON == 4
SIM_BASE_FRACTION == 15
SIM_TIMER_FRACTION == 60

\* simulator calls that could be between their awaits at once
SimSlots == {"s1", "s2"}
\* the random step pct, in hundredths
SimChanges == {-3, 3}
\* priceTimerEnd of the coin at the start
TimerEnds == {1, 2}

Min(a, b) == IF a <= b THEN a ELSE b
Abs(a) == IF a >= 0 THEN a ELSE -a

\* the manual phase applies (line 46); priceTimerEnd 0 stands for null
InManualPhase(c, now) ==
  /\ c.priceMode = "manual"
  /\ ~c.targetPrice.isNull
  /\ c.priceTimerEnd # 0
  /\ c.priceTimerEnd > now

\* the timer has ended (line 72)
TimerEnded(c, now) ==
  /\ c.priceMode = "manual"
  /\ c.priceTimerEnd # 0
  /\ c.priceTimerEnd <= now

\* lines 47-51: 0.15 + stepFraction * 0.6 as the ratio n/d
SimFraction(c, now) ==
  LET timerTotal == Max(1, c.priceTimerEnd - c.updatedAt)
      timerElapsed == Max(0, now - c.updatedAt)
  IN  [n |-> SIM_BASE_FRACTION * timerTotal +
             SIM_TIMER_FRACTION * Min(timerElapsed, timerTotal),
       d |-> 100 * timerTotal]

NoFraction == [n |-> 0, d |-> 0]

\* lines 47-52 and 67: the blend between current and target
SimManualPrice(c, now) ==
  LET target == c.targetPrice.val
      den == SimFraction(c, now).d
      num == c.price * den + (target - c.price) * SimFraction(c, now).n
  IN  IF Abs(num - target * den) < SIM_EPSILON * den
      THEN ToFixed(target, 1, PRICE_GRID_6)
      ELSE ToFixed(num, den, PRICE_GRID_6)

\* line 53
SimDirection(c) ==
  IF c.targetPrice.val > c.price THEN "bull"
  ELSE IF c.targetPrice.val < c.price THEN "bear" ELSE "neutral"

\* lines 56-67: the random step
SimRandomPrice(c, pct) ==
  LET signed == IF c.priceDirection = "bull" THEN Abs(pct)
                ELSE IF c.priceDirection = "bear" THEN -Abs(pct) ELSE pct
  IN  ToFixed(Max(SIM_FLOOR * 100, c.price * (100 + signed)), 100, PRICE_GRID_6)

\* lines 41-112: the $set built for the coin
SimUpdate(c, now, pct) ==
  [price |-> IF InManualPhase(c, now) THEN SimManualPrice(c, now)
             ELSE SimRandomPrice(c, pct),
   priceMode |-> IF TimerEnded(c, now) THEN "random" ELSE c.priceMode,
   targetPrice |-> IF TimerEnded(c, now) THEN NoTarget ELSE c.targetPrice,
   priceDirection |-> IF InManualPhase(c, now) THEN SimDirection(c)
                      ELSE c.priceDirection]

NoSimOps == [price |-> 0, priceMode |-> "manual", targetPrice |-> NoTarget,
             priceDirection |-> "neutral"]

\* a custom coin in its manual phase: a target and a timer set by the admin
InitSimulator ==
  /\ ccoin \in {[price |-> 400, priceMode |-> "manual",
                  targetPrice |-> Target(600), priceTimerEnd |-> t,
                  priceDirection |-> "neutral", updatedAt |-> 0] :
                   t \in TimerEnds}
  /\ simNow = 0
  /\ spc = [s \in SimSlots |-> "idle"]
  /\ sops = [s \in SimSlots |-> NoSimOps]
  /\ nSimRuns = 0
  /\ simFraction = NoFraction

MaxTimerId == 6

Services == {"priceEngine", "simulator", "randomizer"}

\* the order in which startDbServices starts the services
ServiceOrder == <<"priceEngine", "simulator", "randomizer">>

\* the service is started whether or not a handle is held
ShouldStartAlways(handle) == TRUE

\* server.js lines 50, 63, 76: if (!dbServiceHandles.<service>Stop)
ShouldStart(handle) == handle = 0

\* the services whose start sets an interval: the randomizer switched off
\* returns a handle that clears nothing (priceRandomizer.js lines 49-52)
SetsInterval(h, off) ==
  {svc \in Services : ShouldStart(h[svc]) /\ ~(svc = "randomizer" /\ off)}

\* setInterval returns the ids in sequence
StartedTimerId(svc, h, last, off) ==
  last + Cardinality({i \in 1 .. Len(ServiceOrder) :
                        /\ ServiceOrder[i] \in SetsInterval(h, off)
                        /\ \E k \in i .. Len(ServiceOrder) :
                             ServiceOrder[k] = svc})

\* startDbServices, server.js lines 48-87: the handle table after it
HandlesStarted(h, last, off) ==
  [svc \in Services |->
     IF ~ShouldStart(h[svc]) THEN h[svc]
     ELSE IF svc \in SetsInterval(h, off)
          THEN StartedTimerId(svc, h, last, off) ELSE -1]

\* startDbServices: the active timers after it
TimersStarted(h, t, last, off) ==
  [svc \in Services |->
     IF svc \in SetsInterval(h, off)
     THEN t[svc] \cup {StartedTimerId(svc, h, last, off)} ELSE t[svc]]

\* stopDbServices, lines 89-111: every held handle is called
TimersStopped(h, t) == [svc \in Services |-> t[svc] \ {h[svc]}]

NoHandles == [svc \in Services |-> 0]

InitHost ==
  /\ hostpc = "serving"
  /\ dbConnected = FALSE
  /\ randomizerOff \in BOOLEAN
  /\ handles = NoHandles
  /\ timers = [svc \in Services |-> {}]
  /\ lastTimerId = 0

HostAtRest ==
  /\ InitHost
  /\ ~randomizerOff

\* the interval of startSimulator fires (lines 135-137): runCoinSimulator
\* is called and awaits getBTCPrice; there is no in-progress guard
SimulatorFires(s) ==
  /\ spc[s] = "idle"
  /\ nSimRuns < MaxSimRuns
  /\ nSimRuns' = nSimRuns + 1
  /\ spc' = [spc EXCEPT ![s] = "getBTCPrice"]
  /\ UNCHANGED <<ccoin, simNow, sops, simFraction>>
  /\ UNCHANGED nonSimVars

\* lines 35-36: getBTCPrice returns, CustomCoin.find is issued
SimBtcPrice(s) ==
  /\ spc[s] = "getBTCPrice"
  /\ spc' = [spc EXCEPT ![s] = "find"]
  /\ UNCHANGED <<ccoin, simNow, sops, nSimRuns, simFraction>>
  /\ UNCHANGED nonSimVars

\* lines 36-124: CustomCoin.find returns the coin and the op is built, or
\* find fails
SimFind(s) ==
  /\ spc[s] = "find"
  /\ \/ /\ \E pct \in SimChanges :
               sops' = [sops EXCEPT ![s] = SimUpdate(ccoin, simNow, pct)]
        /\ simFraction' = IF InManualPhase(ccoin, simNow)
                          THEN SimFraction(ccoin, simNow) ELSE simFraction
        /\ spc' = [spc EXCEPT ![s] = "bulkWrite"]
     \/ /\ spc' = [spc EXCEPT ![s] = "idle"]
        /\ UNCHANGED <<sops, simFraction>>
  /\ UNCHANGED <<ccoin, simNow, nSimRuns>>
  /\ UNCHANGED nonSimVars

\* lines 126-131: CustomCoin.bulkWrite is applied, or fails
SimBulkWrite(s) ==
  /\ spc[s] = "bulkWrite"
  /\ \/ ccoin' = [ccoin EXCEPT !.price = sops[s].price,
                                !.priceMode = sops[s].priceMode,
                                !.targetPrice = sops[s].targetPrice,
                                !.priceDirection = sops[s].priceDirection,
                                !.updatedAt = simNow]
     \/ UNCHANGED ccoin
  /\ spc' = [spc EXCEPT ![s] = "idle"]
  /\ sops' = [sops EXCEPT ![s] = NoSimOps]
  /\ UNCHANGED <<simNow, nSimRuns, simFraction>>
  /\ UNCHANGED nonSimVars

\* time passes
SimTimePasses ==
  /\ simNow < MaxSimNow
  /\ simNow' = simNow + 1
  /\ UNCHANGED <<ccoin, spc, sops, nSimRuns, simFraction>>
  /\ UNCHANGED nonSimVars

NextSimulator ==
  \/ \E s \in SimSlots : SimulatorFires(s)
  \/ \E s \in SimSlots : SimBtcPrice(s)
  \/ \E s \in SimSlots : SimFind(s)
  \/ \E s \in SimSlots : SimBulkWrite(s)
  \/ SimTimePasses

(***************************************************************************)
(* Host process: shutdown of server.js.                                    *)
(***************************************************************************)
\* SIGINT or SIGTERM: shutdown calls stopDbServices, closes the sockets and
\* the server, and arms the 10 s exit timer (lines 267-288); the stop handle
\* clears the interval (priceUpdater.js line 154)
Shutdown ==
  /\ hostpc = "serving"
  /\ hostpc' = "closing"
  /\ engineRunning' = FALSE
  /\ timers' = TimersStopped(handles, timers)
  /\ handles' = NoHandles
  /\ UNCHANGED <<dbConnected, randomizerOff, lastTimerId>>
  /\ UNCHANGED <<coins, listed, maxChartPoints, inProgress, tpc, tcoins, tops,
                 lastInvocation, nInvocations, published, rpc, rops, nRandom>>
  /\ UNCHANGED <<ledgerVars, cacheVars, simVars, gatewayVars>>

\* the callbacks of server.close and mongoose.connection.close have run:
\* process.exit(0), lines 273-277.  The database commands already issued are
\* taken to finish before the connection closes; a tick that awaits the
\* price feed has issued none.
ExitAfterClose ==
  /\ hostpc = "closing"
  /\ \A s \in Slots : tpc[s] \in {"idle", "fetch"}
  /\ hostpc' = "exited"
  /\ UNCHANGED <<dbConnected, randomizerOff, handles, timers, lastTimerId>>
  /\ UNCHANGED <<ledgerVars, priceVars, cacheVars, simVars, gatewayVars>>

\* the 10 s timer fires first: process.exit(1), line 282
ExitOnTimeout ==
  /\ hostpc = "closing"
  /\ hostpc' = "exited"
  /\ UNCHANGED <<dbConnected, randomizerOff, handles, timers, lastTimerId>>
  /\ UNCHANGED <<ledgerVars, priceVars, cacheVars, simVars, gatewayVars>>

\* the mongoose 'connected' event, lines 246-251 (and the start at line
\* 238): startDbServices starts every service that holds no handle;
\* startPriceEngine calls updatePricesOnce at once
DbConnected ==
  /\ hostpc # "exited"
  /\ dbConnected' = TRUE
  /\ lastTimerId + Cardinality(SetsInterval(handles, randomizerOff))
       <= MaxTimerId
  /\ lastTimerId' =
       lastTimerId + Cardinality(SetsInterval(handles, randomizerOff))
  /\ handles' = HandlesStarted(handles, lastTimerId, randomizerOff)
  /\ timers' = TimersStarted(handles, timers, lastTimerId, randomizerOff)
  /\ IF ShouldStart(handles["priceEngine"])
     THEN /\ engineRunning' = TRUE
          /\ UpdatePricesOnceCall
     ELSE UNCHANGED priceVars
  /\ UNCHANGED <<hostpc, randomizerOff>>
  /\ UNCHANGED <<ledgerVars, cacheVars, simVars, gatewayVars>>

\* the mongoose 'disconnected' event, lines 252-257: stopDbServices
DbDisconnected ==
  /\ hostpc # "exited"
  /\ dbConnected' = FALSE
  /\ timers' = TimersStopped(handles, timers)
  /\ handles' = NoHandles
  /\ engineRunning' = FALSE
  /\ UNCHANGED <<coins, listed, maxChartPoints, inProgress, tpc, tcoins, tops,
                 lastInvocation, nInvocations, published, rpc, rops, nRandom>>
  /\ UNCHANGED <<hostpc, randomizerOff, lastTimerId>>
  /\ UNCHANGED <<ledgerVars, cacheVars, simVars, gatewayVars>>

\* the services follow the connection while the process lives
NextServices ==
  \/ DbConnected
  \/ DbDisconnected
  \/ Shutdown
  \/ ExitAfterClose
  \/ ExitOnTimeout
  \/ hostpc # "exited" /\ IntervalFires
  \/ hostpc # "exited" /\ \E s \in Slots : TickFind(s)
  \/ hostpc # "exited" /\ \E s \in Slots : TickFetch(s)
  \/ hostpc # "exited" /\ \E s \in Slots : TickBulkWrite(s)
  \/ hostpc # "exited" /\ \E s \in Slots : TickBroadcast(s)

\* the engine runs while the process lives
NextShutdown ==
  \/ hostpc # "exited" /\ StartPriceEngine
  \/ hostpc # "exited" /\ IntervalFires
  \/ hostpc # "exited" /\ StopPriceEngine
  \/ hostpc # "exited" /\ \E s \in Slots : TickFind(s)
  \/ hostpc # "exited" /\ \E s \in Slots : TickFetch(s)
  \/ hostpc # "exited" /\ \E s \in Slots : TickBulkWrite(s)
  \/ hostpc # "exited" /\ \E s \in Slots : TickBroadcast(s)
  \/ Shutdown
  \/ ExitAfterClose
  \/ ExitOnTimeout

(***************************************************************************)
(* Specifications: each part runs with the other parts at rest.            *)
(***************************************************************************)
LedgerAtRest ==
  /\ InitLedger
  /\ walletReq = [w \in WalletIds |->
                    [coin |-> "USDT", amount |-> 50, status |-> "pending"]]

PriceAtRest ==
  /\ InitPrice
  /\ listed = CoinSymbols
  /\ maxChartPoints = DEFAULT_CHART_POINTS

SimulatorAtRest ==
  /\ InitSimulator
  /\ ccoin.priceTimerEnd = 1

\* every subscriber is open
GatewayAtRest ==
  /\ InitGateway
  /\ clients = [c \in WsClients |-> "open"]
  /\ ~ioBroken

\* the ledger starts empty, the other parts stay at rest
InitPostings ==
  /\ InitLedger /\ PriceAtRest /\ InitCache /\ SimulatorAtRest /\ HostAtRest
  /\ GatewayAtRest

\* the coins start as seeded or absent, the other parts stay at rest
InitEngine ==
  /\ InitPrice /\ LedgerAtRest /\ InitCache /\ SimulatorAtRest /\ HostAtRest
  /\ GatewayAtRest

\* the cache starts empty, the other parts stay at rest
InitCaching ==
  /\ InitCache /\ LedgerAtRest /\ PriceAtRest /\ SimulatorAtRest /\ HostAtRest
  /\ GatewayAtRest

\* the custom coin starts in its manual phase, the other parts stay at rest
InitSimulating ==
  /\ InitSimulator /\ LedgerAtRest /\ PriceAtRest /\ InitCache /\ HostAtRest
  /\ GatewayAtRest

\* the process starts without a connection, the coins are seeded, the other
\* parts stay at rest
InitServices ==
  /\ InitHost /\ PriceAtRest
  /\ LedgerAtRest /\ InitCache /\ SimulatorAtRest /\ GatewayAtRest

\* the coins are seeded, the subscribers are in any state, the other parts
\* stay at rest
InitBroadcasting ==
  /\ PriceAtRest /\ InitGateway
  /\ LedgerAtRest /\ InitCache /\ SimulatorAtRest /\ HostAtRest

SpecLedger == InitPostings /\ [][NextLedger]_vars

SpecDeposits == InitPostings /\ [][NextDeposits]_vars

SpecSequential == InitPostings /\ [][NextSequential]_vars

SpecBalances == InitPostings /\ [][NextBalances]_vars

SpecPrice == InitEngine /\ [][NextPrice]_vars

SpecWriters == InitEngine /\ [][NextWriters]_vars

SpecOverrides == InitEngine /\ [][NextOverrides]_vars

SpecBroadcast == InitBroadcasting /\ [][NextBroadcast]_vars

SpecServices == InitServices /\ [][NextServices]_vars

SpecShutdown == InitEngine /\ [][NextShutdown]_vars

SpecSimulator == InitSimulating /\ [][NextSimulator]_vars

SpecCache == InitCaching /\ [][NextCache]_vars

SpecSummary == InitPostings /\ [][NextSummary]_vars

(***************************************************************************)
(* Properties of the ledger                                                *)
(***************************************************************************)
RECURSIVE SumAmounts(_, _, _)
\* sum of the amounts of the first n rows of L that belong to coin
SumAmounts(L, coin, n) ==
  IF n = 0 THEN 0
  ELSE SumAmounts(L, coin, n - 1) +
       (IF L[n].coin = coin THEN L[n].amount ELSE 0)

\* the row of the key inserted immediately before row i (0: none)
PrevRow(L, i) ==
  LET before == {j \in 1 .. (i - 1) : L[j].user = L[i].user /\ L[j].coin = L[i].coin}
  IN  IF before = {} THEN 0
      ELSE CHOOSE j \in before : \A k \in before : k <= j

\* C1: postings on one key are serialized: every ledger entry's balance is
\* the balance of the entry inserted immediately before it for the same
\* (user, coin) plus its own amount (the first entry starts from 0).
C1_BalanceChain ==
  \A i \in 1 .. Len(ledger) :
    ledger[i].balance =
      (IF PrevRow(ledger, i) = 0 THEN 0 ELSE ledger[PrevRow(ledger, i)].balance)
      + ledger[i].amount

\* C2: after postings issued one after another (SpecSequential), while no
\* posting is in flight, getBalance of a key equals the sum of the posted
\* deltas of that key, also when entries share a createdAt.
C2_BalanceIsSum ==
  (\A p \in Procs : pc[p] = "idle") =>
    \A c \in LedgerCoins :
      getBalance(ledger, TheUser, c) = {SumAmounts(ledger, c, Len(ledger))}

\* C3: a posting whose previous balance plus delta is below zero ends with
\* "Insufficient balance", goes on to no write and leaves the rows and the
\* balance of every key as they were; a posting that goes on to the write
\* has a previous balance plus delta that is not below zero.
C3_RejectedWritesNothing ==
  [][\A p \in Procs :
       (pc[p] = "post_getBalance" /\ pc'[p] # "post_getBalance") =>
         /\ pc'[p] \in {"post_create", "idle"}
         /\ pc'[p] = "post_create" =>
              /\ prevBalance'[p] \in getBalance(ledger, TheUser, req[p].coin)
              /\ prevBalance'[p] + req[p].delta.val >= 0
         /\ pc'[p] = "idle" =>
              /\ \E b \in getBalance(ledger, TheUser, req[p].coin) :
                   b + req[p].delta.val < 0
              /\ outcome' = "Insufficient balance"
              /\ ledger' = ledger
              /\ \A c \in LedgerCoins :
                   getBalance(ledger', TheUser, c) = getBalance(ledger, TheUser, c)
    ]_vars

C3_Witness ==
  /\ outcome = "Insufficient balance"
  /\ Len(ledger) >= 1

\* C4: under every interleaving of postings on one key the sum of the
\* accepted deltas of the key never goes below zero (after +100 and -30 a
\* concurrent -90 is refused and the balance stays 70).
C4_AcceptedSumNonNegative ==
  \A c \in LedgerCoins : SumAmounts(ledger, c, Len(ledger)) >= 0

\* C5: every stored balance is >= 0, rows are never modified or deleted, and
\* the collection grows by exactly one row per accepted posting, that is on
\* the LedgerEntry.create of a request and on no other step.
C5_AppendOnlyNonNegative ==
  [][/\ Len(ledger') \in {Len(ledger), Len(ledger) + 1}
     /\ \A i \in 1 .. Len(ledger) : ledger'[i] = ledger[i]
     /\ \A i \in 1 .. Len(ledger') : ledger'[i].balance >= 0
     /\ (Len(ledger') = Len(ledger) + 1) <=>
          (\E p \in Procs : pc[p] = "post_create" /\ pc'[p] # "post_create")
    ]_vars

C5_Witness ==
  /\ Len(ledger) >= 2
  /\ \E i \in 1 .. Len(ledger) : ledger[i].amount < 0
  /\ \E i \in 1 .. Len(ledger) : ledger[i].ref = "wallet"

\* C6: no ledger row is written for a delta that is zero or not finite.
C6_NoZeroAmountRow ==
  \A i \in 1 .. Len(ledger) : ledger[i].amount # 0

\* the row of coin that is most recent by createdAt, the later-inserted
\* row winning among equal timestamps
LatestRow(L, user, coin) ==
  CHOOSE i \in KeyRows(L, user, coin) :
    \A j \in KeyRows(L, user, coin) :
      \/ L[j].createdAt < L[i].createdAt
      \/ (L[j].createdAt = L[i].createdAt /\ j <= i)

\* C7: getAllBalances returns exactly one row for each coin with at least
\* one entry, holding the balance of the coin's most recent entry by
\* createdAt, ties broken by insertion order (the later-inserted wins).
C7_LatestPerCoin ==
  allBalancesAt # -1 =>
    allBalances =
      {[coin |-> c, balance |-> ledger[LatestRow(ledger, TheUser, c)].balance] :
         c \in {d \in LedgerCoins : KeyRows(ledger, TheUser, d) # {}}}

(***************************************************************************)
(* Properties of the price engine                                          *)
(***************************************************************************)
InBody(f) == {s \in Slots : f[s] # "idle"}

\* C8: the tick is single-flight: at most one updatePricesOnce body is
\* between its entry and its end at any time, and a call that arrives while
\* a body has not finished (from the start of the engine, from the interval
\* or from a restart) is skipped: it reads no coins, writes no prices and
\* broadcasts nothing.
C8_SingleFlight ==
  [][/\ Cardinality(InBody(tpc')) <= 1
     /\ (nInvocations' # nInvocations /\ InBody(tpc) # {}) =>
          /\ lastInvocation' = "skipped"
          /\ UNCHANGED <<coins, inProgress, tpc, tcoins, tops, published>>
    ]_vars

C8_Witness ==
  /\ lastInvocation = "skipped"
  /\ \E s \in Slots : tpc[s] = "bulkWrite"
  /\ ~engineRunning

\* C9: every coin's chartHistory has at most MAX_CHART_POINTS points in
\* every reachable state, whichever of the price engine and the price
\* randomizer wrote last.
C9_HistoryWithinCap ==
  \A sym \in CoinSymbols : Len(coins[sym].chartHistory) <= maxChartPoints

\* the coin a body read is under admin control with a driftSpeed in (0, 1]
Drifting(c) ==
  /\ c.adminControlEnabled
  /\ ~c.targetPrice.isNull
  /\ c.driftSpeed > 0
  /\ c.driftSpeed <= 100

Between(x, a, b) == (a <= x /\ x <= b) \/ (b <= x /\ x <= a)

\* the price of the claim: current + (target - current) * driftSpeed, kept
\* with the decimals of the stored price
DriftFormula(c) ==
  PRICE_GRID_8 *
    RoundDiv(c.price * 100 + (c.targetPrice.val - c.price) * c.driftSpeed,
             100 * PRICE_GRID_8)

Moves(s, a, b) == tpc[s] = a /\ tpc'[s] = b

\* the coin is in admin-drift mode (priceUpdater.js line 65)
UnderAdminControl(c) == c.adminControlEnabled /\ ~c.targetPrice.isNull

\* the finite quotes of the feed
QuotedPrices == {q.val : q \in {r \in Quotes : r.finite}}

\* C11: for every coin the bulk update of a tick sets previousPrice to the
\* price the coin had immediately before the update and price to the newly
\* computed price (after ticks p0 -> p1 -> p2 the stored previousPrice is p1).
C11_PreviousPriceIsOldPrice ==
  [][\A s \in Slots : \A sym \in listed :
       Moves(s, "bulkWrite", "broadcast") =>
         /\ coins'[sym].price = tops[s][sym].price
         /\ coins'[sym].previousPrice = coins[sym].price
    ]_vars

\* C12: for a coin not under admin control, a tick that got no finite quote
\* for the coin (its price is not a quote of the feed) keeps the price it
\* read, sets previousPrice to that same price, and appends one chartHistory
\* point holding that price.
C12_NoQuoteKeepsPrice ==
  [][\A s \in Slots : \A sym \in listed :
       /\ (/\ Moves(s, "fetch", "bulkWrite")
           /\ ~UnderAdminControl(tcoins[s][sym])
           /\ tops'[s][sym].price \notin QuotedPrices) =>
            /\ tops'[s][sym].price = tcoins[s][sym].price
            /\ tops'[s][sym].previousPrice = tcoins[s][sym].price
       /\ Moves(s, "bulkWrite", "broadcast") =>
            /\ coins'[sym].chartHistory # <<>>
            /\ coins'[sym].chartHistory[Len(coins'[sym].chartHistory)] =
                 tops[s][sym].price
    ]_vars

\* the fields of a coin that the admin routes set
Control(c) == <<c.adminControlEnabled, c.targetPrice, c.driftSpeed>>

\* the drift speeds that a set-target request can give
GivenSpeeds ==
  {b.driftSpeed.val : b \in {r \in SetTargetBodies : r.driftSpeed.finite}}

C16_PriceNonNegative ==
  \A sym \in listed : coins[sym].price >= 0

(***************************************************************************)
(* Properties of the wallet summary cache                                  *)
(***************************************************************************)
\* the step is a call of op for user u
Calls(op, u) ==
  /\ nCacheOps' # nCacheOps
  /\ cacheCall'.op = op
  /\ cacheCall'.user = u

\* C13: get(userId) returns the snapshot stored by set exactly while
\* (now - storedAt) < ttl; once the ttl has elapsed it returns null, with no
\* invalidate needed, and that read removes the entry from the map.
C13_FreshOrNull ==
  [][\A u \in CacheUsers :
       Calls("get", u) =>
         IF cacheMap[u].present /\ cacheNow - cacheMap[u].ts < cacheTtl
         THEN /\ cacheCall'.hit
              /\ cacheCall'.data = cacheMap[u].data
              /\ cacheMap' = cacheMap
         ELSE /\ ~cacheCall'.hit
              /\ ~cacheMap'[u].present
              /\ \A v \in CacheUsers \ {u} : cacheMap'[v] = cacheMap[v]
    ]_vars

\* a get found an entry whose ttl had elapsed: it returned null and removed it
C13_Witness ==
  /\ cacheCall.op = "get"
  /\ ~cacheCall.hit
  /\ cacheCall.existed
  /\ cacheTtl = DEFAULT_TTL_MS

\* C14: invalidate(userId) removes the entry of userId and leaves the
\* entries of the other users as they were; only set(userId) brings an
\* entry of userId back; and get(userId) returns null while there is no
\* entry.  Hence a get after an invalidate with no set in between returns
\* null, whatever calls came before and however fresh the entry was.
C14_InvalidateThenNull ==
  [][\A u \in CacheUsers :
       /\ Calls("invalidate", u) =>
            /\ ~cacheMap'[u].present
            /\ \A v \in CacheUsers \ {u} : cacheMap'[v] = cacheMap[v]
       /\ (~cacheMap[u].present /\ cacheMap'[u].present) => Calls("set", u)
       /\ (Calls("get", u) /\ ~cacheMap[u].present) => ~cacheCall'.hit
    ]_vars

\* an invalidate removed an entry while another user's entry stayed
C14_Witness ==
  /\ cacheCall.op = "invalidate"
  /\ cacheCall.existed
  /\ \E v \in CacheUsers \ {cacheCall.user} : cacheMap[v].present

\* C15: a cache get made while no ledger operation is in flight returns no
\* snapshot that was stored before a ledger write: the snapshot it returns
\* covers every ledger row.
C15_NoStaleSnapshot ==
  [][(/\ Calls("get", TheUser)
      /\ \A p \in Procs : pc[p] = "idle"
      /\ cacheCall'.hit) => cacheCall'.data = Len(ledger)
    ]_vars

(***************************************************************************)
(* Properties of the custom coin simulator                                 *)
(***************************************************************************)
\* the simulator call in slot s goes from step a to step b
SimMoves(s, a, b) == spc[s] = a /\ spc'[s] = b

\* C18: a run that reads a manual coin at or after priceTimerEnd sets
\* priceMode to random and targetPrice to null; a run that reads a random
\* coin takes the random step and keeps the mode; and no step moves the
\* stored coin from random back to manual.
C18_ManualEndsForGood ==
  [][/\ \A s \in SimSlots :
          SimMoves(s, "find", "bulkWrite") =>
            /\ (/\ ccoin.priceMode = "manual"
                /\ ccoin.priceTimerEnd # 0
                /\ simNow >= ccoin.priceTimerEnd) =>
                 /\ sops'[s].priceMode = "random"
                 /\ sops'[s].targetPrice = NoTarget
            /\ ccoin.priceMode = "random" =>
                 /\ sops'[s].priceMode = "random"
                 /\ sops'[s].targetPrice = NoTarget
                 /\ \E pct \in SimChanges :
                      sops'[s].price = SimRandomPrice(ccoin, pct)
     /\ ccoin.priceMode = "random" => ccoin'.priceMode = "random"
    ]_vars

(***************************************************************************)
(* Properties of the shutdown                                              *)
(***************************************************************************)
\* C19: while the engine is stopped the scheduler starts no tick, and when
\* the process has exited no tick is still between two of its awaits (none
\* is cut off before its bulk write or its broadcast).
C19_StopLeavesNoTick ==
  /\ [][(~engineRunning /\ ~engineRunning') =>
          nInvocations' = nInvocations]_vars
  /\ [](hostpc = "exited" => \A s \in Slots : tpc[s] = "idle")

(***************************************************************************)
(* Properties of a failing tick                                            *)
(***************************************************************************)
\* C20: every step that ends a body of updatePricesOnce (after the
\* broadcast, on an empty coin list, on a failed read or a failed bulk
\* write) clears the in-progress flag; a step that ends a body on a failure
\* writes no price, publishes nothing, starts no further call and leaves the
\* scheduler as it is; and a call that arrives when no body is in flight
\* runs its body.
C20_FailedTickFreesNext ==
  [][/\ \A s \in Slots :
          /\ (tpc[s] # "idle" /\ tpc'[s] = "idle") => inProgress' = FALSE
          /\ (Moves(s, "find", "idle") \/ Moves(s, "bulkWrite", "idle")) =>
               /\ coins' = coins
               /\ published' = published
               /\ nInvocations' = nInvocations
               /\ engineRunning' = engineRunning
               /\ \A t \in Slots \ {s} : tpc'[t] = tpc[t]
     /\ (/\ nInvocations' = nInvocations + 1
         /\ \A s \in Slots : tpc[s] = "idle") =>
          /\ lastInvocation' = "ran"
          /\ \E s \in Slots : tpc'[s] = "find"
    ]_vars

\* the second call runs its body after the first body failed: the coins
\* exist and the first body wrote no chart point
C20_Witness ==
  /\ listed # {}
  /\ nInvocations = 2
  /\ lastInvocation = "ran"
  /\ \E s \in Slots : tpc[s] = "find"
  /\ published = <<>>
  /\ \A sym \in CoinSymbols : coins[sym].chartHistory = <<>>

(***************************************************************************)
(* Properties of the broadcast of a tick                                   *)
(***************************************************************************)
\* C21: a tick reaches its broadcast only from its bulk write, which has
\* then stored for every coin the price of its ops; the ops stay as they
\* are until the broadcast; the published snapshot changes only in the
\* broadcast step of a tick and then holds for every coin that price; and a
\* tick whose bulk write fails publishes nothing.
C21_SnapshotAfterWrite ==
  [][/\ \A s \in Slots :
          /\ (tpc[s] # "broadcast" /\ tpc'[s] = "broadcast") =>
               /\ tpc[s] = "bulkWrite"
               /\ tops'[s] = tops[s]
               /\ \A sym \in listed : coins'[sym].price = tops[s][sym].price
          /\ (tpc[s] = "broadcast" /\ tpc'[s] = "broadcast") =>
               tops'[s] = tops[s]
          /\ Moves(s, "bulkWrite", "idle") =>
               /\ published' = published
               /\ coins' = coins
     /\ published' # published =>
          \E s \in Slots :
            /\ Moves(s, "broadcast", "idle")
            /\ Len(published') = 1
            /\ \A sym \in CoinSymbols :
                 published'[1][sym] = tops[s][sym].price
    ]_vars

\* a snapshot with a new price is out and the coins hold its prices
C21_Witness ==
  /\ listed = CoinSymbols
  /\ Len(published) = 1
  /\ \A sym \in CoinSymbols : coins[sym].price = published[1][sym]
  /\ \E sym \in CoinSymbols : published[1][sym] # 400

\* C22: the broadcast step of a tick sends the snapshot to every open
\* native websocket client whatever the other clients' sends do, also when
\* the Socket.IO emit throws; the step ends the tick with the flag cleared
\* and the stored prices, written before, as they are.
C22_SendFailuresIsolated ==
  [][\A s \in Slots :
       Moves(s, "broadcast", "idle") =>
         /\ fanout'.ws = {c \in WsClients : clients[c] = "open"}
         /\ fanout'.io = ~ioBroken
         /\ published' = <<Snapshot(tops[s])>>
         /\ inProgress' = FALSE
         /\ coins' = coins
         /\ \A sym \in listed : coins[sym].price = tops[s][sym].price
    ]_vars

\* a broadcast where the first client's send and the emit threw and the
\* second client received the snapshot
C22_Witness ==
  /\ Len(published) = 1
  /\ ioBroken
  /\ clients[1] = "broken"
  /\ fanout.ws = {2}
  /\ ~inProgress

(***************************************************************************)
(* Properties of the manual phase of a custom coin                         *)
(***************************************************************************)
\* the run in slot s takes the manual step
ManualStep(s) ==
  /\ SimMoves(s, "find", "bulkWrite")
  /\ InManualPhase(ccoin, simNow)

\* what the manual step does to the price: it stays between the price
\* read and the target, and is the target once within the epsilon of it
SimStepTowardTarget ==
  [][\A s \in SimSlots :
       ManualStep(s) =>
         LET target == ccoin.targetPrice.val
             new == sops'[s].price
         IN  /\ Min(ccoin.price, target) <= new
             /\ new <= Max(ccoin.price, target)
             /\ Abs(target - new) < SIM_EPSILON => new = target
             /\ ccoin.price # target => new # ccoin.price
    ]_vars

\* the fraction lies between the base value and 1
SimFractionInRange ==
  [][\A s \in SimSlots :
       ManualStep(s) =>
         /\ simFraction'.n * 100 >= SIM_BASE_FRACTION * simFraction'.d
         /\ simFraction'.n <= simFraction'.d
    ]_vars

\* C23: a run that takes the manual step moves the price toward the target
\* without passing it and sets it to the target once within the epsilon,
\* with a fraction between the base value and 1 that is at least the
\* fraction of the manual step before it.
C23_ManualFractionGrows ==
  /\ SimStepTowardTarget
  /\ SimFractionInRange
  /\ [][\A s \in SimSlots :
          (ManualStep(s) /\ simFraction.d # 0) =>
            simFraction'.n * simFraction.d >= simFraction.n * simFraction'.d
       ]_vars

(***************************************************************************)
(* Properties of the admin price override                                  *)
(***************************************************************************)
\* the override of coin sym with a price that is not negative is in
\* effect: its target is set and its price is the target (only
\* priceOverride sets a target here)
Overridden(sym) ==
  /\ sym \in listed
  /\ ~coins[sym].targetPrice.isNull
  /\ coins[sym].price = coins[sym].targetPrice.val
  /\ coins[sym].price >= 0

\* C24: while the override of a coin is in effect, the bulk write of a tick
\* leaves the coin's price at the overriding price, whether the tick read
\* the coin before or after the override.
C24_OverrideSurvivesTicks ==
  [][\A s \in Slots : \A sym \in CoinSymbols :
       (Moves(s, "bulkWrite", "broadcast") /\ Overridden(sym)) =>
         coins'[sym].price = coins[sym].price
    ]_vars

(***************************************************************************)
(* Properties of the deposit requests                                      *)
(***************************************************************************)
\* the deposit rows posted for the request w1 (ref wallet:<id>)
DepositRows ==
  {i \in 1 .. Len(ledger) :
     ledger[i].type = "deposit" /\ ledger[i].ref = "wallet"}

\* C25: at most one deposit row exists for a deposit request, under every
\* interleaving of approveWallet calls.
C25_CreditedAtMostOnce == Cardinality(DepositRows) <= 1

(***************************************************************************)
(* Properties of the embedded wallets                                      *)
(***************************************************************************)
\* C26: when no call is in flight, the embedded wallet balance of every
\* coin with ledger rows is a balance that getBalance returns for the coin.
C26_EmbeddedEqualsLedger ==
  (\A p \in Procs : pc[p] = "idle") =>
    \A c \in LedgerCoins :
      KeyRows(ledger, TheUser, c) # {} =>
        embedded[c] \in getBalance(ledger, TheUser, c)

(***************************************************************************)
(* Properties of adminSetBalance                                           *)
(***************************************************************************)
\* the balances adminSetBalance is asked to set
DesiredBalances == {b.val : b \in {d \in SetBalances : d.finite}}

\* C27: every ledger row that adminSetBalance writes carries the balance
\* the call was asked to set, and a call that finds the ledger balance
\* equal to it returns without writing a row.
C27_SetBalanceSetsLedger ==
  /\ [](\A i \in 1 .. Len(ledger) :
          ledger[i].ref = "admin_set_balance" =>
            ledger[i].balance \in DesiredBalances)
  /\ [][\A p \in Procs :
          (pc[p] = "asb_getBalance" /\ pc'[p] = "idle") => ledger' = ledger
       ]_vars

\* C28: the status of a deposit request changes only from pending, and no
\* deposit row is posted for a request while it is rejected.
C28_StatusOnlyLeavesPending ==
  [][\A w \in WalletIds :
       /\ walletReq[w].status # "pending" =>
            walletReq'[w].status = walletReq[w].status
       /\ walletReq[w].status = "rejected" => ledger' = ledger
    ]_vars

ExpectedTimers(svc) == IF svc = "randomizer" /\ randomizerOff THEN 0 ELSE 1

\* C30: every service has at most one active interval timer, and exactly
\* the timer its handle clears; a disconnected event and shutdown leave no
\* active timer; a connected event leaves every service started, with one
\* timer, also when it follows a disconnected event.
C30_OneTimerPerService ==
  /\ [](\A svc \in Services :
          /\ Cardinality(timers[svc]) <= 1
          /\ timers[svc] = IF handles[svc] > 0 THEN {handles[svc]} ELSE {})
  /\ [][/\ ((dbConnected /\ ~dbConnected') \/
             (hostpc = "serving" /\ hostpc' = "closing")) =>
            \A svc \in Services : timers'[svc] = {}
        /\ (/\ dbConnected'
            /\ hostpc' = hostpc
            /\ ~dbConnected \/ handles' # handles) =>
            \A svc \in Services :
              Cardinality(timers'[svc]) = ExpectedTimers(svc)
       ]_vars

\* the services were started, stopped and started again: each has one
\* timer, and the timers are those of the second start
C30_Witness ==
  /\ dbConnected
  /\ timers = [svc \in Services |->
                 {StartedTimerId(svc, NoHandles, Len(ServiceOrder), FALSE)}]

====
